---- MODULE Spec2Model ----
(***************************************************************************)
(* Model of the unsafe_fn procedural-macro crate (src/src/lib.rs).         *)
(*                                                                         *)
(* The crate exports two attribute macros, #[unsafe_fn] and #[safe_body].  *)
(* Both hand a parsed declaration to unsafe_fn_impl, which splits it into  *)
(* an inner function holding the original body and an `unsafe` outer       *)
(* function that only forwards its parameters.                             *)
(*                                                                         *)
(* A state is one compilation of one annotated item: the item as parsed,   *)
(* the token stream the first expansion returned, and the token stream     *)
(* returned when #[unsafe_fn] is expanded once more on the `unsafe`        *)
(* declaration of that output.                                             *)
(***************************************************************************)
EXTENDS Integers, Sequences, FiniteSets, TLC

VARIABLES item, attr, result, result2, pc

vars == <<item, attr, result, result2, pc>>

(***************************************************************************)
(* Bounds of the explored inputs.                                          *)
(***************************************************************************)
MaxParams == 2
MaxGenerics == 2

(***************************************************************************)
(* Option<T> as a sequence of length at most one.                          *)
(***************************************************************************)
None == <<>>
Some(x) == <<x>>

(***************************************************************************)
(* Diagnostics (the message strings of the Error::new calls).              *)
(***************************************************************************)
AlreadyMarked == "#[unsafe_fn] already marked unsafe"
NotMarked == "#[safe_body] function must be marked as unsafe"
UnsupportedConstruct == "#[unsafe_fn] can only be applied to functions or traits"
ParseError == "parse error"

(***************************************************************************)
(* format_ident!("__unsafe_fn_{}", ident) and                              *)
(* format_ident!("__unsafe_fn_arg{}", n).                                  *)
(***************************************************************************)
unsafe_fn_name(ident) == "__unsafe_fn_" \o ident

\* Faulty variant: every synthetic name gets the number 0.
ArgNameFirstOnly(sub_args) == "__unsafe_fn_arg" \o ToString(0)

\* Faulty variant: the number counts only the synthetic names issued so far.
ArgNameCountingSynthetic(sub_args) ==
    LET synthetic == {"__unsafe_fn_arg" \o ToString(k) : k \in 0..Len(sub_args)}
    IN  "__unsafe_fn_arg"
            \o ToString(Cardinality({n \in 1..Len(sub_args) : sub_args[n] \in synthetic}))

arg_name(sub_args) == "__unsafe_fn_arg" \o ToString(Len(sub_args))

(***************************************************************************)
(* syn's FnArg.  A Receiver is self / mut self / &self / &mut self /       *)
(* &'a self / &'a mut self; a Typed argument is `pat: ty`, whose pattern   *)
(* is a Pat::Ident (`x`, `mut x`, also `self` in `self: Box<Self>`), a     *)
(* Pat::Wild (`_`) or a Pat::Tuple (`(a, b)`).  The type of a parameter is *)
(* identified by a number.                                                 *)
(***************************************************************************)
Receiver(reference, mutability) ==
    [tag |-> "Receiver", reference |-> reference, mutability |-> mutability]

PatIdent(mutability, ident) ==
    [kind |-> "Ident", mutability |-> mutability, ident |-> ident]

PatWild == [kind |-> "Wild", mutability |-> FALSE, ident |-> "_"]

PatTuple == [kind |-> "Tuple", mutability |-> FALSE, ident |-> "(..)"]

Typed(pat, ty) == [tag |-> "Typed", pat |-> pat, ty |-> ty]

(***************************************************************************)
(* struct RemoveMut: a Fold that clears the `mut` of a PatIdent and of a   *)
(* Receiver and leaves everything else as it is.                           *)
(***************************************************************************)
fold_pat_ident(i) == [i EXCEPT !.mutability = FALSE]

fold_receiver(i) == [i EXCEPT !.mutability = FALSE]

fold_fn_arg(it) ==
    IF it.tag = "Receiver" THEN fold_receiver(it)
    ELSE IF it.pat.kind = "Ident" THEN [it EXCEPT !.pat = fold_pat_ident(it.pat)]
    ELSE it

(***************************************************************************)
(* struct HasSelfType: a Visit that records whether an identifier `Self`   *)
(* is met.  visit_item is overridden to do nothing, so the walk stops at   *)
(* nested items.  A block is a sequence of statements: an expression (with *)
(* the identifiers it mentions), a nested item, a nested block, a call or  *)
(* a panic.                                                                *)
(***************************************************************************)
visit_ident(i) == i = "Self"

\* Faulty variant: the walk descends into nested items.
VisitItemDescending(i) == \E n \in i.idents : visit_ident(n)

visit_item(i) == FALSE

visit_signature(sig) ==
    \/ visit_ident(sig.ident)
    \/ visit_ident(sig.output)
    \/ \E i \in 1..Len(sig.generics) : visit_ident(sig.generics[i].ident)

RECURSIVE visit_block(_)
visit_block(block) ==
    \E n \in 1..Len(block.stmts) :
        LET s == block.stmts[n]
        IN  CASE s.kind = "Expr"  -> \E i \in s.idents : visit_ident(i)
              [] s.kind = "Item"  -> visit_item(s)
              [] s.kind = "Block" -> visit_block(s.block)
              [] s.kind = "Call"  -> s.form = "Self" \/ visit_ident(s.callee)
              [] OTHER            -> FALSE

HasSelfType(sig, block) == visit_signature(sig) \/ visit_block(block)

(***************************************************************************)
(* The loop of unsafe_fn_impl over the parameters: one step pushes one     *)
(* parameter to main_param (the outer list) and to sub_param (the inner    *)
(* list), and its name to sub_args (the arguments of the forwarding call)  *)
(* unless it is the receiver.                                              *)
(***************************************************************************)
EmptySplit ==
    [main_param |-> <<>>, sub_param |-> <<>>, sub_args |-> <<>>, wrap_self |-> FALSE]

PushReceiver(acc, it) ==
    [acc EXCEPT !.sub_param = Append(@, it),
                !.main_param = Append(@, fold_fn_arg(it)),
                !.wrap_self = TRUE]

\* Faulty variant: a simple name is put in front of the arguments collected so far.
PushIdentFront(acc, it) ==
    [acc EXCEPT !.main_param = Append(@, fold_fn_arg(it)),
                !.sub_param = Append(@, it),
                !.wrap_self = IF it.pat.ident = "self" THEN TRUE ELSE @,
                !.sub_args = IF it.pat.ident = "self" THEN @ ELSE <<it.pat.ident>> \o @]

PushIdent(acc, it) ==
    [acc EXCEPT !.main_param = Append(@, fold_fn_arg(it)),
                !.sub_param = Append(@, it),
                !.wrap_self = IF it.pat.ident = "self" THEN TRUE ELSE @,
                !.sub_args = IF it.pat.ident = "self" THEN @ ELSE Append(@, it.pat.ident)]

\* Faulty variant: a `_` parameter is kept in both signatures and not forwarded.
PushPatternDroppingWild(acc, it) ==
    IF it.pat.kind = "Wild"
    THEN [acc EXCEPT !.main_param = Append(@, it), !.sub_param = Append(@, it)]
    ELSE LET name == arg_name(acc.sub_args)
         IN  [acc EXCEPT !.main_param = Append(@, Typed(PatIdent(FALSE, name), it.ty)),
                         !.sub_param = Append(@, it),
                         !.sub_args = Append(@, name)]

PushPattern(acc, it) ==
    LET name == arg_name(acc.sub_args)
    IN  [acc EXCEPT !.main_param = Append(@, Typed(PatIdent(FALSE, name), it.ty)),
                    !.sub_param = Append(@, it),
                    !.sub_args = Append(@, name)]

PushParam(acc, it) ==
    IF it.tag = "Receiver" THEN PushReceiver(acc, it)
    ELSE IF it.pat.kind = "Ident" THEN PushIdent(acc, it)
    ELSE PushPattern(acc, it)

RECURSIVE SplitFrom(_, _)
SplitFrom(acc, inputs) ==
    IF inputs = <<>> THEN acc
    ELSE SplitFrom(PushParam(acc, Head(inputs)), Tail(inputs))

SplitParams(inputs) == SplitFrom(EmptySplit, inputs)

(***************************************************************************)
(* generics.type_params() and the turbofish of the forwarding call.        *)
(***************************************************************************)
\* Faulty variant: every generic parameter is taken, whatever its kind.
AllParams(generics) == [i \in 1..Len(generics) |-> generics[i].ident]

RECURSIVE type_params(_)
type_params(generics) ==
    IF generics = <<>> THEN <<>>
    ELSE (IF Head(generics).kind = "Type" THEN <<Head(generics).ident>> ELSE <<>>)
         \o type_params(Tail(generics))

turbo(generics) == type_params(generics)

(***************************************************************************)
(* Token streams returned by the macros: a compile error, or a sequence of *)
(* items.                                                                  *)
(***************************************************************************)
CompileError(msg) == [error |-> Some(msg), items |-> <<>>]

Tokens(items) == [error |-> None, items |-> items]

Fn(sig, block) == [type |-> "Fn", sig |-> sig, block |-> block]

(***************************************************************************)
(* unsafe_fn_impl, bodyless trait method: the declaration marked unsafe    *)
(* and a placeholder that panics.                                          *)
(***************************************************************************)
\* Faulty variant: the placeholder keeps the `unsafe` of the declaration.
BodylessUnsafePlaceholder(sig) ==
    Tokens(<<
        Fn([sig EXCEPT !.unsafety = TRUE], None),
        Fn([sig EXCEPT !.unsafety = TRUE,
                       !.ident = unsafe_fn_name(sig.ident),
                       !.where_clause = @ \cup {"Self:Sized"}],
           Some([stmts |-> <<[kind |-> "Panic"]>>]))
    >>)

Bodyless(sig) ==
    Tokens(<<
        Fn([sig EXCEPT !.unsafety = TRUE], None),
        Fn([sig EXCEPT !.unsafety = FALSE,
                       !.ident = unsafe_fn_name(sig.ident),
                       !.where_clause = @ \cup {"Self:Sized"}],
           Some([stmts |-> <<[kind |-> "Panic"]>>]))
    >>)

(***************************************************************************)
(* unsafe_fn_impl, declaration with a body: fun is the inner function,     *)
(* fdecl the header of the outer one, and the outer body takes one of      *)
(* three forms.                                                            *)
(***************************************************************************)
Call(form, callee, generics, args) ==
    [kind |-> "Call", form |-> form, callee |-> callee,
     turbo |-> turbo(generics), args |-> args]

WithBody(sig, block) ==
    LET sp    == SplitParams(sig.inputs)
        inner == unsafe_fn_name(sig.ident)
        fun   == Fn([sig EXCEPT !.unsafety = FALSE,
                                !.ident = inner,
                                !.inputs = sp.sub_param],
                    Some([stmts |-> <<[kind |-> "Block", block |-> block]>>]))
        fdecl == [sig EXCEPT !.unsafety = TRUE, !.inputs = sp.main_param]
    IN  IF sp.wrap_self
        THEN Tokens(<<fun,
                      Fn(fdecl, Some([stmts |->
                          <<Call("receiver", inner, sig.generics, sp.sub_args)>>]))>>)
        ELSE IF HasSelfType(sig, block)
        THEN Tokens(<<fun,
                      Fn(fdecl, Some([stmts |->
                          <<Call("Self", inner, sig.generics, sp.sub_args)>>]))>>)
        ELSE Tokens(<<Fn(fdecl, Some([stmts |->
                          <<[kind |-> "ItemFn", decl |-> fun],
                            Call("plain", inner, sig.generics, sp.sub_args)>>]))>>)

\* Faulty variant: the bodyless case is handled before the marker is validated.
UnsafeFnImplValidatingLate(f, k) ==
    IF f.block = None THEN Bodyless(f.sig)
    ELSE IF k = "UnsafeFn" /\ f.sig.unsafety THEN CompileError(AlreadyMarked)
    ELSE IF k = "SafeBody" /\ ~f.sig.unsafety THEN CompileError(NotMarked)
    ELSE WithBody(f.sig, f.block[1])

unsafe_fn_impl(f, k) ==
    IF k = "UnsafeFn" /\ f.sig.unsafety THEN CompileError(AlreadyMarked)
    ELSE IF k = "SafeBody" /\ ~f.sig.unsafety THEN CompileError(NotMarked)
    ELSE IF f.block = None THEN Bodyless(f.sig)
    ELSE WithBody(f.sig, f.block[1])

(***************************************************************************)
(* The two attribute macros.  A function or method is handed to            *)
(* unsafe_fn_impl; #[unsafe_fn] puts `unsafe` in front of a trait and      *)
(* rejects any other item; #[safe_body] parses nothing but a function.     *)
(* Tokens that are no item at all fail to parse.                           *)
(***************************************************************************)
unsafe_fn(tokens) ==
    CASE tokens.type = "Fn"    -> unsafe_fn_impl(tokens, "UnsafeFn")
      [] tokens.type = "Trait" -> Tokens(<<[type |-> "Unsafe", item |-> tokens]>>)
      [] tokens.type = "Other" -> CompileError(UnsupportedConstruct)
      [] OTHER                 -> CompileError(ParseError)

safe_body(tokens) ==
    CASE tokens.type = "Fn" -> unsafe_fn_impl(tokens, "SafeBody")
      [] OTHER              -> CompileError(ParseError)

(***************************************************************************)
(* The declarations handed to the macros.                                  *)
(***************************************************************************)
ReservedUserIdents == {"__unsafe_fn_arg1"}

UserIdents == {"a", "b"} \cup ReservedUserIdents

Receivers == {Receiver(r, m) : r \in {"", "&", "&'a"}, m \in BOOLEAN}

TypedPats ==
    {PatIdent(m, i) : m \in BOOLEAN, i \in UserIdents}
        \cup {PatIdent(FALSE, "self"), PatWild, PatTuple}

\* Parameter lists of n parameters; a receiver can only come first, and the
\* n-th parameter has the type numbered n.
RECURSIVE ParamLists(_)
ParamLists(n) ==
    IF n = 0 THEN {<<>>}
    ELSE IF n = 1 THEN {<<r>> : r \in Receivers} \cup {<<Typed(p, 1)>> : p \in TypedPats}
    ELSE {Append(l, Typed(p, n)) : l \in ParamLists(n - 1), p \in TypedPats}

Inputs == UNION {ParamLists(n) : n \in 0..MaxParams}

GenericParams ==
    {[kind |-> "Type", ident |-> "T"], [kind |-> "Type", ident |-> "U"],
     [kind |-> "Lifetime", ident |-> "'a"], [kind |-> "Const", ident |-> "N"]}

\* Lists of n generic parameters with distinct names, lifetimes first and
\* const parameters last.
RECURSIVE GenericLists(_)
GenericLists(n) ==
    IF n = 0 THEN {<<>>}
    ELSE {Append(l, g) : l \in GenericLists(n - 1),
                         g \in GenericParams}

Distinct(l) == \A i, j \in 1..Len(l) : i # j => l[i] # l[j]

Rank(g) == CASE g.kind = "Lifetime" -> 0 [] g.kind = "Type" -> 1 [] OTHER -> 2

Ordered(l) == \A i, j \in 1..Len(l) : i < j => Rank(l[i]) <= Rank(l[j])

Generics ==
    {l \in UNION {GenericLists(n) : n \in 0..MaxGenerics} : Distinct(l) /\ Ordered(l)}

\* Bodies: `{ a }`, `{ Self::x }`, and the same after a nested item that
\* mentions Self (`struct Q; impl Q { fn new() -> Self }`).
Blocks ==
    {[stmts |-> <<[kind |-> "Expr", idents |-> {"a"}]>>],
     [stmts |-> <<[kind |-> "Expr", idents |-> {"Self", "a"}]>>],
     [stmts |-> <<[kind |-> "Item", idents |-> {"Self"}],
                  [kind |-> "Expr", idents |-> {"a"}]>>]}

Signature(u, g, i, o) ==
    [unsafety |-> u, ident |-> "foo", generics |-> g, inputs |-> i,
     output |-> o, where_clause |-> {}]

OptionalBlocks == {None} \cup {Some(b) : b \in Blocks}

TraitItems == {[type |-> "Trait", unsafety |-> u, ident |-> "Marker"] : u \in BOOLEAN}

OtherItems == {[type |-> "Other", ident |-> "SomeStruct"]}

NoTokens == Tokens(<<>>)

(***************************************************************************)
(* The `unsafe` declaration among the items of a token stream, and the     *)
(* item the compiler parses it to when an attribute on it is expanded.     *)
(* `unsafe unsafe trait` is no item: compilation stops there.              *)
(***************************************************************************)
UnsafeDecl(tokens) ==
    LET its == tokens.items
    IN  its[CHOOSE k \in 1..Len(its) :
                \/ its[k].type = "Unsafe"
                \/ its[k].type = "Fn" /\ its[k].sig.unsafety]

Parses(decl) == decl.type = "Unsafe" => ~decl.item.unsafety

Restricted(tokens) ==
    LET decl == UnsafeDecl(tokens)
    IN  IF decl.type = "Unsafe" THEN [decl.item EXCEPT !.unsafety = TRUE] ELSE decl

(***************************************************************************)
(* One compilation.                                                        *)
(***************************************************************************)
Init ==
    /\ \/ \E u \in BOOLEAN, g \in Generics, i \in Inputs,
             o \in {"u32", "Self"}, b \in OptionalBlocks :
                item = Fn(Signature(u, g, i, o), b)
       \/ item \in TraitItems \cup OtherItems
    /\ attr = "none"
    /\ result = NoTokens
    /\ result2 = NoTokens
    /\ pc = "parsed"

ExpandUnsafeFn ==
    /\ pc = "parsed"
    /\ attr' = "unsafe_fn"
    /\ result' = unsafe_fn(item)
    /\ pc' = "expanded"
    /\ UNCHANGED <<item, result2>>

ExpandSafeBody ==
    /\ pc = "parsed"
    /\ attr' = "safe_body"
    /\ result' = safe_body(item)
    /\ pc' = "expanded"
    /\ UNCHANGED <<item, result2>>

ExpandAgain ==
    /\ pc = "expanded"
    /\ attr = "unsafe_fn"
    /\ result.error = None
    /\ Parses(UnsafeDecl(result))
    /\ result2' = unsafe_fn(Restricted(result))
    /\ pc' = "expanded_again"
    /\ UNCHANGED <<item, attr, result>>

Next == ExpandUnsafeFn \/ ExpandSafeBody \/ ExpandAgain

Spec == Init /\ [][Next]_vars

(***************************************************************************)
(* Reading an expansion: the outer (unsafe) function, the inner function   *)
(* (a sibling item, or nested in the outer body) and the forwarding call,  *)
(* which is the last statement of the outer body.                          *)
(***************************************************************************)
Split ==
    /\ pc # "parsed"
    /\ item.type = "Fn"
    /\ item.block # None
    /\ result.error = None

Outer == result.items[Len(result.items)]

OuterStmts == Outer.block[1].stmts

Inner == IF Len(result.items) = 2 THEN result.items[1] ELSE OuterStmts[1].decl

ForwardingCall == OuterStmts[Len(OuterStmts)]

IsReceiverParam(p) ==
    \/ p.tag = "Receiver"
    \/ p.pat.kind = "Ident" /\ p.pat.ident = "self"

NonReceiver(params) == SelectSeq(params, LAMBDA p : ~IsReceiverParam(p))

Names(params) == [i \in 1..Len(params) |-> params[i].pat.ident]

PairwiseDistinct(l) == \A i, j \in 1..Len(l) : i # j => l[i] # l[j]

\* The number of non-receiver parameters before position i.
Before(params, i) == Len(NonReceiver(SubSeq(params, 1, i - 1)))

C2_ReceiverVerbatim ==
    (Split /\ item.sig.inputs # <<>> /\ item.sig.inputs[1].tag = "Receiver") =>
        /\ Outer.sig.inputs[1] = item.sig.inputs[1]
        /\ Inner.sig.inputs[1] = item.sig.inputs[1]
        /\ ForwardingCall.form = "receiver"
        /\ \A j \in 1..Len(ForwardingCall.args) : ForwardingCall.args[j] # "self"

(***************************************************************************)
(* C3.  #[unsafe_fn] expanded again on the unsafe declaration that a first *)
(* #[unsafe_fn] produced is rejected with "already marked unsafe".         *)
(***************************************************************************)
C3_SecondAddRestrictionRejected ==
    pc = "expanded_again" => result2 = CompileError(AlreadyMarked)

(***************************************************************************)
(* C4.  #[unsafe_fn] on an unsafe function or method, and #[safe_body] on  *)
(* one that is not unsafe, return the diagnostic and no declaration, with  *)
(* or without a body.                                                      *)
(***************************************************************************)
WronglyMarked ==
    /\ pc # "parsed"
    /\ item.type = "Fn"
    /\ \/ attr = "unsafe_fn" /\ item.sig.unsafety
       \/ attr = "safe_body" /\ ~item.sig.unsafety

C4_MarkerValidationPrecedesOutput ==
    WronglyMarked =>
        /\ result.items = <<>>
        /\ result.error =
                Some(IF attr = "unsafe_fn"
                     THEN "#[unsafe_fn] already marked unsafe"
                     ELSE "#[safe_body] function must be marked as unsafe")

C4_Witness ==
    /\ WronglyMarked
    /\ attr = "safe_body"
    /\ item.block = None
    /\ result.error = Some(NotMarked)

(***************************************************************************)
(* C5.  A bodyless trait method that is accepted yields exactly two        *)
(* declarations: the original one, still bodyless, parameters unchanged,   *)
(* marked unsafe; and a placeholder __unsafe_fn_<name> with the same       *)
(* parameters, not unsafe, whose body is a panic and nothing else.         *)
(***************************************************************************)
BodylessAccepted ==
    /\ pc # "parsed"
    /\ item.type = "Fn"
    /\ item.block = None
    /\ result.error = None

C5_BodylessMarkedWithPlaceholder ==
    BodylessAccepted =>
        /\ Len(result.items) = 2
        /\ LET decl        == result.items[1]
               placeholder == result.items[2]
           IN  /\ decl.type = "Fn"
               /\ decl.block = None
               /\ decl.sig.ident = item.sig.ident
               /\ decl.sig.inputs = item.sig.inputs
               /\ decl.sig.unsafety
               /\ placeholder.type = "Fn"
               /\ placeholder.sig.ident = "__unsafe_fn_" \o item.sig.ident
               /\ placeholder.sig.inputs = item.sig.inputs
               /\ ~placeholder.sig.unsafety
               /\ placeholder.block = Some([stmts |-> <<[kind |-> "Panic"]>>])

C5_Witness ==
    /\ BodylessAccepted
    /\ attr = "unsafe_fn"
    /\ item.sig.inputs = <<Receiver("&", TRUE), Typed(PatWild, 2)>>
    /\ result.items[1].sig.inputs = item.sig.inputs
    /\ result.items[2].sig.ident = "__unsafe_fn_foo"

(***************************************************************************)
(* C6.  The outer body dispatches through the receiver when there is one   *)
(* (a `self: T` parameter included); otherwise through Self:: exactly when *)
(* Self occurs in the header or in the body outside nested items;          *)
(* otherwise by a plain call of the inner function nested in the outer     *)
(* body.  In the first two forms the inner function is a sibling item.     *)
(***************************************************************************)
HasReceiver == \E i \in 1..Len(item.sig.inputs) : IsReceiverParam(item.sig.inputs[i])

SelfOutsideNestedItems ==
    \/ item.sig.output = "Self"
    \/ \E n \in 1..Len(item.block[1].stmts) :
            /\ item.block[1].stmts[n].kind = "Expr"
            /\ "Self" \in item.block[1].stmts[n].idents

SelfInNestedItem ==
    \E n \in 1..Len(item.block[1].stmts) :
        /\ item.block[1].stmts[n].kind = "Item"
        /\ "Self" \in item.block[1].stmts[n].idents

Positions(params, Keep(_)) ==
    SelectSeq([i \in 1..Len(params) |-> i], LAMBDA i : Keep(params[i]))

C7_WildNeverForwarded ==
    Split =>
        LET orig == item.sig.inputs
            kept == Positions(orig, LAMBDA p : ~IsReceiverParam(p) /\ p.pat.kind # "Wild")
        IN  /\ Len(Outer.sig.inputs) = Len(orig)
            /\ Len(Inner.sig.inputs) = Len(orig)
            /\ ForwardingCall.args =
                    [j \in 1..Len(kept) |-> Outer.sig.inputs[kept[j]].pat.ident]

(***************************************************************************)
(* C7, amended.  A `_` parameter stays `_` in the inner signature, is a    *)
(* binding with a synthetic name and the same type in the outer signature, *)
(* and that name is forwarded at the parameter's place among the           *)
(* non-receiver parameters; there are as many forwarding arguments as      *)
(* non-receiver parameters.                                                *)
(***************************************************************************)
IsSynthetic(name) == \E k \in 0..MaxParams : name = "__unsafe_fn_arg" \o ToString(k)

C7_WildForwardedUnderSyntheticName ==
    Split =>
        LET orig  == item.sig.inputs
            outer == Outer.sig.inputs
        IN  /\ Len(ForwardingCall.args) = Len(NonReceiver(orig))
            /\ \A i \in 1..Len(orig) :
                    (orig[i].tag = "Typed" /\ orig[i].pat.kind = "Wild") =>
                        /\ Inner.sig.inputs[i] = orig[i]
                        /\ outer[i].pat.kind = "Ident"
                        /\ IsSynthetic(outer[i].pat.ident)
                        /\ outer[i].ty = orig[i].ty
                        /\ ForwardingCall.args[Before(orig, i) + 1] = outer[i].pat.ident

C7_Witness ==
    /\ Split
    /\ item.sig.inputs = <<Typed(PatWild, 1), Typed(PatWild, 2)>>
    /\ ForwardingCall.args = <<"__unsafe_fn_arg0", "__unsafe_fn_arg1">>

(***************************************************************************)
(* C8.  As claimed: the call of a generic declaration carries all its      *)
(* generic parameters in declaration order, the call of a non-generic one  *)
(* none.                                                                   *)
(***************************************************************************)
C8_AllGenericsForwarded ==
    Split =>
        ForwardingCall.turbo =
            [i \in 1..Len(item.sig.generics) |-> item.sig.generics[i].ident]

(***************************************************************************)
(* C8, amended.  The call carries exactly the generic type parameters of   *)
(* the declaration, in declaration order; lifetime and const parameters    *)
(* are not carried, and a declaration without type parameters gets no      *)
(* explicit generic arguments.                                             *)
(***************************************************************************)
C8_TypeParamsForwarded ==
    Split =>
        LET types == SelectSeq(item.sig.generics, LAMBDA g : g.kind = "Type")
        IN  /\ ForwardingCall.turbo = [i \in 1..Len(types) |-> types[i].ident]
            /\ (\A i \in 1..Len(item.sig.generics) : item.sig.generics[i].kind # "Type")
                    => ForwardingCall.turbo = <<>>

C8_Witness ==
    /\ Split
    /\ item.sig.generics = <<[kind |-> "Lifetime", ident |-> "'a"],
                             [kind |-> "Type", ident |-> "T"]>>
    /\ ForwardingCall.turbo = <<"T">>

(***************************************************************************)
(* C9.  As claimed: the k-th parameter that needs a synthetic name         *)
(* (k = 0, 1, ...) is named __unsafe_fn_arg<k>.                            *)
(***************************************************************************)
NeedsSynthetic(p) == p.tag = "Typed" /\ p.pat.kind # "Ident"

C9_NumberedAmongSynthetic ==
    Split =>
        LET orig == item.sig.inputs
        IN  \A i \in 1..Len(orig) :
                NeedsSynthetic(orig[i]) =>
                    Outer.sig.inputs[i].pat.ident =
                        "__unsafe_fn_arg"
                            \o ToString(Cardinality({j \in 1..(i - 1) : NeedsSynthetic(orig[j])}))

(***************************************************************************)
(* C9, amended.  A parameter that needs a synthetic name is named          *)
(* __unsafe_fn_arg<n>, n being the number of forwarding arguments          *)
(* collected before it, that is the number of non-receiver parameters      *)
(* (simple or not) that precede it; the count starts at 0 in every         *)
(* invocation.                                                             *)
(***************************************************************************)
C9_NumberedByArgumentPosition ==
    Split =>
        LET orig == item.sig.inputs
        IN  \A i \in 1..Len(orig) :
                NeedsSynthetic(orig[i]) =>
                    Outer.sig.inputs[i].pat.ident =
                        "__unsafe_fn_arg" \o ToString(Before(orig, i))

C9_Witness ==
    /\ Split
    /\ item.sig.inputs = <<Typed(PatIdent(FALSE, "b"), 1), Typed(PatTuple, 2)>>
    /\ Outer.sig.inputs[2].pat.ident = "__unsafe_fn_arg1"

(***************************************************************************)
(* C10.  When the names the user bound are pairwise distinct and none      *)
(* starts with the reserved prefix, the forwarding arguments are pairwise  *)
(* distinct and so are the binding names of the outer parameter list.      *)
(***************************************************************************)
UserBindings == Names(SelectSeq(item.sig.inputs,
                    LAMBDA p : p.tag = "Typed" /\ p.pat.kind = "Ident" /\ p.pat.ident # "self"))

C10_ForwardingNamesDistinct ==
    (/\ Split
     /\ PairwiseDistinct(UserBindings)
     /\ \A n \in 1..Len(UserBindings) : UserBindings[n] \notin ReservedUserIdents) =>
        /\ PairwiseDistinct(ForwardingCall.args)
        /\ PairwiseDistinct(Names(NonReceiver(Outer.sig.inputs)))

C10_Witness ==
    /\ Split
    /\ item.sig.inputs = <<Typed(PatTuple, 1), Typed(PatWild, 2)>>
    /\ ForwardingCall.args = <<"__unsafe_fn_arg0", "__unsafe_fn_arg1">>
    /\ Names(Outer.sig.inputs) = ForwardingCall.args

====
